---- MODULE Spec2Model ----
(***************************************************************************)
(* State-machine model of src/BracesColorPicker.jsx: the parent component  *)
(* BracesColorPicker (selected color, color mode), the child BracesModel   *)
(* (meshColors state, its three effects, the canvas click listener) and    *)
(* the materials of the scene the effects write.                           *)
(*                                                                         *)
(* React is modelled by what the component relies on: a state setter with  *)
(* an unchanged value bails out; a commit queues the cleanups and effects  *)
(* whose dependencies changed, cleanups first, effects in source order;    *)
(* effects read the state of the render that created them; a setMeshColors *)
(* call is queued and applied by the next render; the effects of a commit  *)
(* are flushed before the next event is handled.                           *)
(***************************************************************************)
EXTENDS Integers, Sequences, FiniteSets, TLC

(* ------------------------------ bounds --------------------------------- *)

\* how many entries of COLORS (from the front) the modelled user clicks on,
\* besides the initially selected one
NumColors == 1

\* how many registered meshes the modelled asset contains
NumSceneParts == 2

\* longest list of ray intersections a click produces
MaxHits == 2

(* --------------------------- program constants ------------------------- *)

\* Array.from({ length: 16 }, ...)
GroupSize == 16

\* String(i + 1).padStart(4, '0')
PadWidth == 4

\* numeric material parameters, in tenths
Metalness == 8
Roughness == 2
EnvMapIntensity == 15
EnvMapFallback == 10

COLORS ==
    << "#32CD32", "#009E60", "#008000", "#00A86B", "#008080", "#87CEEB",
       "#0000FF", "#000080", "#800080", "#C8A2C8", "#800020", "#FF0000",
       "#DC143C", "#FF66CC", "#FFC0CB", "#FF69B4", "#FF7F50", "#FF8C00",
       "#FFA500", "#FFFF00", "#000000", "#808080", "#CD7F32", "#D4AF37",
       "#F5F5DC", "#F8F6F0", "#FFFFFF", "#C0C0C0" >>

\* useState('#0000FF')
InitialSelectedColor == "#0000FF"

\* meshColors[child.name] || '#0000FF'
DefaultColor == "#0000FF"

\* JavaScript truthiness of a string
Truthy(s) == s # ""

RECURSIVE padStart(_, _, _)
padStart(s, n, fill) == IF Len(s) >= n THEN s ELSE padStart(fill \o s, n, fill)

MeshNames(prefix) ==
    [i \in 1..GroupSize |-> prefix \o padStart(ToString(i), PadWidth, "0")]

BRACES_MESHES ==
    MeshNames("BezierCircle005_Material005_") \o MeshNames("BezierCircle006_Material005_")

\* Array.prototype.includes
Includes(arr, x) == \E i \in DOMAIN arr : arr[i] = x

\* the registry as a set
AllParts == {BRACES_MESHES[i] : i \in DOMAIN BRACES_MESHES}

(* ------------------------------ the scene ------------------------------ *)

\* The asset: a root group, NumSceneParts registered meshes taken alternately
\* from the two groups of the registry, and three meshes the registry does not
\* name, one for each kind of material the else-branch of the update-materials
\* effect tells apart.
ToothName == "Tooth"
GumName == "Gum"
WireName == "Wire"
RootName == "Scene"

ScenePartNames ==
    {BRACES_MESHES[IF i % 2 = 1 THEN (i + 1) \div 2 ELSE GroupSize + i \div 2] :
        i \in 1..NumSceneParts}

OtherMeshNames == {ToothName, GumName, WireName}

SceneObjects ==
    {[name |-> n, isMesh |-> TRUE] : n \in ScenePartNames \cup OtherMeshNames}
        \cup {[name |-> RootName, isMesh |-> FALSE]}

SceneMeshes == {o \in SceneObjects : o.isMesh}

\* the meshes the modelled clicks reach: the registered ones and the tooth
ClickTargets == {o \in SceneMeshes : o.name \in ScenePartNames \cup {ToothName}}

\* materials: kind "none" is a mesh without material
NoMaterial ==
    [kind |-> "none", color |-> "", metalness |-> 0, hasMetalness |-> FALSE,
     roughness |-> 0, envMapIntensity |-> 0, needsUpdate |-> FALSE]

\* the materials of the asset: the tooth has metalness and no envMapIntensity,
\* the gum an envMapIntensity and no metalness, the wire no material
AssetMaterial(name) ==
    IF name = ToothName THEN
      [kind |-> "asset", color |-> "asset", metalness |-> 0, hasMetalness |-> TRUE,
       roughness |-> 5, envMapIntensity |-> 0, needsUpdate |-> FALSE]
    ELSE IF name = GumName THEN
      [kind |-> "asset", color |-> "asset", metalness |-> 0, hasMetalness |-> FALSE,
       roughness |-> 5, envMapIntensity |-> 20, needsUpdate |-> FALSE]
    ELSE IF name = WireName THEN NoMaterial
    ELSE
      [kind |-> "asset", color |-> "asset", metalness |-> 0, hasMetalness |-> TRUE,
       roughness |-> 5, envMapIntensity |-> 10, needsUpdate |-> FALSE]

\* new THREE.MeshStandardMaterial({color, metalness: 0.8, roughness: 0.2, envMapIntensity: 1.5})
MeshStandardMaterial(color) ==
    [kind |-> "MeshStandardMaterial", color |-> color, metalness |-> Metalness,
     hasMetalness |-> TRUE, roughness |-> Roughness,
     envMapIntensity |-> EnvMapIntensity, needsUpdate |-> FALSE]

(* ------------------------------ inputs --------------------------------- *)

\* palette entries the modelled user clicks
PaletteInputs == {COLORS[i] : i \in 1..NumColors} \cup {InitialSelectedColor}

Modes == {"all", "single"}

\* distance-ordered intersection lists: distinct objects hit, nearest first
HitLists ==
    {h \in UNION {[1..n -> ClickTargets] : n \in 0..MaxHits} :
        \A i, j \in DOMAIN h : i # j => h[i] # h[j]}

(* ------------------------------ state ---------------------------------- *)

VARIABLES
    selectedColor,   \* BracesColorPicker: useState('#0000FF')
    colorMode,       \* BracesColorPicker: useState('all')
    mounted,         \* BracesModel is mounted (the asset has loaded)
    meshColors,      \* BracesModel: useState({}), the committed value
    updateQueue,     \* setMeshColors calls not yet rendered
    pending,         \* cleanups and effects queued by the last commit
    listeners,       \* click listeners installed on gl.domElement, in order
    listenerCleanup, \* the handler the pending cleanup of the listener effect removes
    material,        \* material of every mesh of the scene
    threw,           \* a handler raised an exception
    lastOp,          \* history: the last event handled
    prev,            \* history: the state when that event arrived
    picked,          \* history: the names the last click passed to handleMeshClick
    lastPass,        \* history: the assignment the last update-materials pass read,
                     \* and whether the pass before it read the same one
    trail            \* history: whether the user has acted at all, and whether the
                     \* last two events were the same setColorMode call

vars == << selectedColor, colorMode, mounted, meshColors, updateQueue, pending,
           listeners, listenerCleanup, material, threw, lastOp, prev, picked, lastPass,
           trail >>

EmptyMap == [k \in {} |-> ""]

NoHandler == [colorMode |-> "", selectedColor |-> ""]

Op(op, color, mode, hits) == [op |-> op, color |-> color, mode |-> mode, hits |-> hits]

Snapshot ==
    [meshColors |-> meshColors, colorMode |-> colorMode,
     selectedColor |-> selectedColor]

Settled == pending = << >> /\ updateQueue = << >>

Init ==
    /\ selectedColor = InitialSelectedColor
    /\ colorMode = "all"
    /\ mounted = FALSE
    /\ meshColors = EmptyMap
    /\ updateQueue = << >>
    /\ pending = << >>
    /\ listeners = << >>
    /\ listenerCleanup = NoHandler
    /\ material = [o \in SceneMeshes |-> AssetMaterial(o.name)]
    /\ threw = FALSE
    /\ lastOp = Op("init", "", "", << >>)
    /\ prev = [meshColors |-> EmptyMap, colorMode |-> "all",
               selectedColor |-> InitialSelectedColor]
    /\ picked = {}
    /\ lastPass = [ran |-> FALSE, repeated |-> FALSE, colors |-> EmptyMap]
    /\ trail = [touched |-> FALSE, repeatedMode |-> FALSE]

(* ------------------------- BracesModel: handlers ----------------------- *)

\* a queued setMeshColors call: a new object, or an updater spreading prev
Replace(map) == [kind |-> "replace", map |-> map, key |-> "", value |-> ""]
Assign(key, value) == [kind |-> "assign", map |-> EmptyMap, key |-> key, value |-> value]

\* the handler a render creates: it closes over that render's props
Handler(mode, color) == [colorMode |-> mode, selectedColor |-> color]

\* handleMeshClick of the render h: the setMeshColors calls it makes
handleMeshClick(h, meshName) ==
    IF h.colorMode = "single" /\ Truthy(h.selectedColor)
    THEN << Assign(meshName, h.selectedColor) >>
    ELSE << >>

\* variant: the name of the nearest hit, whether or not the registry has it
Resolve_NoRegistryCheck(intersects) ==
    IF Len(intersects) > 0 THEN {intersects[1].name} ELSE {}

\* variant: the nearest registered hit, skipping whatever lies in front of it
Resolve_SkipOccluders(intersects) ==
    LET regs == {i \in DOMAIN intersects : Includes(BRACES_MESHES, intersects[i].name)}
    IN  IF regs = {} THEN {}
        ELSE {intersects[CHOOSE i \in regs : \A j \in regs : i <= j].name}

\* intersects[0].object.name when it is in BRACES_MESHES: at most one name
Resolve(intersects) ==
    IF Len(intersects) > 0
    THEN IF Includes(BRACES_MESHES, intersects[1].name)
         THEN {intersects[1].name}
         ELSE {}
    ELSE {}

\* variant: intersects[0].object read without the length test
handleCanvasClick_NoLengthGuard(h, intersects) ==
    IF h.colorMode # "single"
    THEN [updates |-> << >>, picked |-> {}, threw |-> FALSE]
    ELSE IF Len(intersects) = 0
    THEN [updates |-> << >>, picked |-> {}, threw |-> TRUE]
    ELSE IF Includes(BRACES_MESHES, intersects[1].name)
    THEN [updates |-> handleMeshClick(h, intersects[1].name),
          picked  |-> {intersects[1].name},
          threw   |-> FALSE]
    ELSE [updates |-> << >>, picked |-> {}, threw |-> FALSE]

\* handleCanvasClick of the render h on a click whose ray gives `intersects`
handleCanvasClick(h, intersects) ==
    IF h.colorMode # "single"
    THEN [updates |-> << >>, picked |-> {}, threw |-> FALSE]
    ELSE LET names == Resolve(intersects) IN
         IF names = {}
         THEN [updates |-> << >>, picked |-> {}, threw |-> FALSE]
         ELSE LET meshName == CHOOSE n \in names : TRUE IN
              [updates |-> handleMeshClick(h, meshName),
               picked  |-> {meshName},
               threw   |-> FALSE]

\* the browser calls every installed listener, in the order they were added
RECURSIVE Dispatch(_, _)
Dispatch(ls, intersects) ==
    IF ls = << >>
    THEN [updates |-> << >>, picked |-> {}, threw |-> FALSE]
    ELSE LET r    == handleCanvasClick(Head(ls), intersects)
             rest == Dispatch(Tail(ls), intersects)
         IN  [updates |-> r.updates \o rest.updates,
              picked  |-> r.picked \cup rest.picked,
              threw   |-> r.threw \/ rest.threw]

(* ------------------------- BracesModel: effects ------------------------ *)

\* variant: only the first group of the registry is written
NewColors_FirstGroupOnly(color) ==
    [meshName \in {BRACES_MESHES[i] : i \in 1..GroupSize} |-> color]

\* newColors of the apply-colors effect
NewColors(color) == [meshName \in AllParts |-> color]

\* variant: the effect merges the color into the parts that have no entry yet
ApplyColorsEffect_FillMissing(mode, color) ==
    IF mode = "all" /\ Truthy(color)
    THEN << Replace([meshName \in AllParts |->
                        IF meshName \in DOMAIN meshColors
                        THEN meshColors[meshName] ELSE color]) >>
    ELSE << >>

\* variant: the effect does not test the mode
ApplyColorsEffect_AnyMode(mode, color) ==
    IF Truthy(color) THEN << Replace([meshName \in AllParts |-> color]) >> ELSE << >>

\* the apply-colors effect: the setMeshColors calls it makes
ApplyColorsEffect(mode, color) ==
    IF mode = "all" /\ Truthy(color)
    THEN << Replace(NewColors(color)) >>
    ELSE << >>

\* variant: the click-listener effect has an empty dependency array
PropsChangedEffects_NoListener == << "applyColors" >>

\* variant: the click-listener effect returns no cleanup
PropsChangedEffects_NoCleanup == << "applyColors", "addListener" >>

\* variant: the apply-colors effect is not re-run when the props change
PropsChangedEffects_NoApply == << "removeListener", "addListener" >>

\* what the dependency arrays queue when selectedColor or colorMode changed
PropsChangedEffects == << "removeListener", "applyColors", "addListener" >>

\* variant: the update-materials effect does not depend on meshColors
MeshColorsChangedEffects_None == << >>

\* what the dependency arrays queue when meshColors changed
MeshColorsChangedEffects == << "updateMaterials" >>

\* variant: the apply-colors effect does not run on mount
MountEffects_NoApply == << "addListener", "updateMaterials" >>

\* every effect runs once on mount, in source order
MountEffects == << "applyColors", "addListener", "updateMaterials" >>

\* variant: the effect returns no cleanup
RemoveListener_Noop(ls, h) == ls

\* removeEventListener: the first listener identical to h goes
RECURSIVE RemoveListener(_, _)
RemoveListener(ls, h) ==
    IF ls = << >> THEN << >>
    ELSE IF Head(ls) = h THEN Tail(ls)
    ELSE << Head(ls) >> \o RemoveListener(Tail(ls), h)

\* meshColors[name], undefined read as the empty (falsy) string
Lookup(map, name) == IF name \in DOMAIN map THEN map[name] ELSE ""

\* meshColors[child.name] || '#0000FF'
colorFor(map, name) ==
    IF Truthy(Lookup(map, name)) THEN Lookup(map, name) ELSE DefaultColor

\* variant: envMapIntensity is raised on every pass
EnhanceMaterial_Accumulate(m) ==
    IF m.kind = "none" THEN m
    ELSE [m EXCEPT
            !.envMapIntensity = m.envMapIntensity + EnvMapFallback,
            !.needsUpdate = IF m.hasMetalness THEN TRUE ELSE m.needsUpdate]

\* the else-branch of the update-materials effect on one material
EnhanceMaterial(m) ==
    IF m.kind = "none" THEN m
    ELSE [m EXCEPT
            !.envMapIntensity =
                IF m.envMapIntensity # 0 THEN m.envMapIntensity ELSE EnvMapFallback,
            !.needsUpdate = IF m.hasMetalness THEN TRUE ELSE m.needsUpdate]

\* the update-materials effect: scene.traverse over every object
UpdateMaterials(mat, colors) ==
    [o \in SceneMeshes |->
        IF o.isMesh /\ Includes(BRACES_MESHES, o.name)
        THEN MeshStandardMaterial(colorFor(colors, o.name))
        ELSE IF o.isMesh THEN EnhanceMaterial(mat[o])
        ELSE mat[o]]

\* variant: the updater returns {[meshName]: selectedColor} without ...prev
ApplyUpdate_NoSpread(map, u) ==
    IF u.kind = "replace" THEN u.map ELSE [k \in {u.key} |-> u.value]

\* a render applies the queued setMeshColors calls in order
ApplyUpdate(map, u) ==
    IF u.kind = "replace" THEN u.map
    ELSE [k \in DOMAIN map \cup {u.key} |-> IF k = u.key THEN u.value ELSE map[k]]

RECURSIVE ApplyUpdates(_, _)
ApplyUpdates(map, us) ==
    IF us = << >> THEN map ELSE ApplyUpdates(ApplyUpdate(map, Head(us)), Tail(us))

(* ------------------------------ actions -------------------------------- *)

\* the asset resolves: Suspense mounts BracesModel with the current props
Mount ==
    /\ ~mounted
    /\ Settled
    /\ mounted' = TRUE
    /\ meshColors' = EmptyMap
    /\ pending' = MountEffects
    /\ lastOp' = Op("mount", "", "", << >>)
    /\ prev' = Snapshot
    /\ picked' = {}
    /\ trail' = [trail EXCEPT !.repeatedMode = FALSE]
    /\ UNCHANGED << selectedColor, colorMode, updateQueue, listeners,
                    listenerCleanup, material, threw, lastPass >>

\* a palette card is clicked: setSelectedColor(color.hex)
SetSelectedColor(c) ==
    /\ Settled
    /\ selectedColor' = c
    /\ pending' = IF mounted /\ c # selectedColor THEN PropsChangedEffects ELSE << >>
    /\ lastOp' = Op("setColor", c, "", << >>)
    /\ prev' = Snapshot
    /\ picked' = {}
    /\ trail' = [touched |-> TRUE, repeatedMode |-> FALSE]
    /\ UNCHANGED << colorMode, mounted, meshColors, updateQueue, listeners,
                    listenerCleanup, material, threw, lastPass >>

\* variant: a mode switch also resets the selected color
SetColorMode_ResetsColor(m) ==
    /\ Settled
    /\ colorMode' = m
    /\ selectedColor' = InitialSelectedColor
    /\ pending' = IF mounted /\ (m # colorMode \/ selectedColor # InitialSelectedColor)
                  THEN PropsChangedEffects ELSE << >>
    /\ lastOp' = Op("setMode", "", m, << >>)
    /\ prev' = Snapshot
    /\ picked' = {}
    /\ trail' = [touched |-> TRUE,
                  repeatedMode |-> lastOp.op = "setMode" /\ lastOp.mode = m]
    /\ UNCHANGED << mounted, meshColors, updateQueue, listeners,
                    listenerCleanup, material, threw, lastPass >>

\* variant: the mode buttons toggle the mode instead of setting it
SetColorMode_Toggle(m) ==
    /\ Settled
    /\ colorMode' = (IF colorMode = "all" THEN "single" ELSE "all")
    /\ pending' = IF mounted THEN PropsChangedEffects ELSE << >>
    /\ lastOp' = Op("setMode", "", m, << >>)
    /\ prev' = Snapshot
    /\ picked' = {}
    /\ trail' = [touched |-> TRUE,
                  repeatedMode |-> lastOp.op = "setMode" /\ lastOp.mode = m]
    /\ UNCHANGED << selectedColor, mounted, meshColors, updateQueue, listeners,
                    listenerCleanup, material, threw, lastPass >>

\* a mode button is clicked: setColorMode('all') or setColorMode('single')
SetColorMode(m) ==
    /\ Settled
    /\ colorMode' = m
    /\ pending' = IF mounted /\ m # colorMode THEN PropsChangedEffects ELSE << >>
    /\ lastOp' = Op("setMode", "", m, << >>)
    /\ prev' = Snapshot
    /\ picked' = {}
    /\ trail' = [touched |-> TRUE,
                  repeatedMode |-> lastOp.op = "setMode" /\ lastOp.mode = m]
    /\ UNCHANGED << selectedColor, mounted, meshColors, updateQueue, listeners,
                    listenerCleanup, material, threw, lastPass >>

\* a click on the canvas: the installed listeners run
CanvasClick(intersects) ==
    /\ Settled
    /\ mounted
    /\ LET r == Dispatch(listeners, intersects) IN
          /\ updateQueue' = r.updates
          /\ picked' = r.picked
          /\ threw' = (threw \/ r.threw)
    /\ lastOp' = Op("click", "", "", intersects)
    /\ prev' = Snapshot
    /\ trail' = [touched |-> TRUE, repeatedMode |-> FALSE]
    /\ UNCHANGED << selectedColor, colorMode, mounted, meshColors, pending,
                    listeners, listenerCleanup, material, lastPass >>

\* cleanup of the click-listener effect
RunRemoveListener ==
    /\ pending # << >> /\ Head(pending) = "removeListener"
    /\ listeners' = RemoveListener(listeners, listenerCleanup)
    /\ pending' = Tail(pending)
    /\ UNCHANGED << selectedColor, colorMode, mounted, meshColors, updateQueue,
                    listenerCleanup, material, threw, lastOp, prev, picked, lastPass, trail >>

\* the apply-colors effect
RunApplyColors ==
    /\ pending # << >> /\ Head(pending) = "applyColors"
    /\ updateQueue' = updateQueue \o ApplyColorsEffect(colorMode, selectedColor)
    /\ pending' = Tail(pending)
    /\ UNCHANGED << selectedColor, colorMode, mounted, meshColors, listeners,
                    listenerCleanup, material, threw, lastOp, prev, picked, lastPass, trail >>

\* the click-listener effect
RunAddListener ==
    /\ pending # << >> /\ Head(pending) = "addListener"
    /\ listeners' = Append(listeners, Handler(colorMode, selectedColor))
    /\ listenerCleanup' = Handler(colorMode, selectedColor)
    /\ pending' = Tail(pending)
    /\ UNCHANGED << selectedColor, colorMode, mounted, meshColors, updateQueue,
                    material, threw, lastOp, prev, picked, lastPass, trail >>

\* the update-materials effect
RunUpdateMaterials ==
    /\ pending # << >> /\ Head(pending) = "updateMaterials"
    /\ material' = UpdateMaterials(material, meshColors)
    /\ pending' = Tail(pending)
    /\ lastPass' = [ran |-> TRUE,
                    repeated |-> lastPass.ran /\ lastPass.colors = meshColors,
                    colors |-> meshColors]
    /\ UNCHANGED << selectedColor, colorMode, mounted, meshColors, updateQueue,
                    listeners, listenerCleanup, threw, lastOp, prev, picked, trail >>

\* BracesModel re-renders with the queued setMeshColors calls applied
Render ==
    /\ pending = << >>
    /\ updateQueue # << >>
    /\ meshColors' = ApplyUpdates(meshColors, updateQueue)
    /\ updateQueue' = << >>
    /\ pending' = MeshColorsChangedEffects
    /\ UNCHANGED << selectedColor, colorMode, mounted, listeners, listenerCleanup,
                    material, threw, lastOp, prev, picked, lastPass, trail >>

Next ==
    \/ Mount
    \/ \E c \in PaletteInputs : SetSelectedColor(c)
    \/ \E m \in Modes : SetColorMode(m)
    \/ \E intersects \in HitLists : CanvasClick(intersects)
    \/ RunRemoveListener
    \/ RunApplyColors
    \/ RunAddListener
    \/ RunUpdateMaterials
    \/ Render

Spec == Init /\ [][Next]_vars

\* the effects of a commit and the render of queued updates always run
FairSpec ==
    /\ Spec
    /\ WF_vars(RunRemoveListener)
    /\ WF_vars(RunApplyColors)
    /\ WF_vars(RunAddListener)
    /\ WF_vars(RunUpdateMaterials)
    /\ WF_vars(Render)

(* ------------------------------ properties ----------------------------- *)

\* the nearest hit of the last click is a registered part
NearestIsRegistered ==
    /\ lastOp.hits # << >>
    /\ \E i \in DOMAIN BRACES_MESHES : BRACES_MESHES[i] = lastOp.hits[1].name

\* C1: in All mode, once a palette click on color c has been processed, the
\* assignment is exactly {p -> c} over the 32 registered parts, and colorFor
\* gives c for each of them.
C1_AllModeBroadcast ==
    (mounted /\ Settled /\ lastOp.op = "setColor" /\ colorMode = "all") =>
        /\ DOMAIN meshColors = AllParts
        /\ Cardinality(DOMAIN meshColors) = 32
        /\ \A p \in AllParts :
              meshColors[p] = lastOp.color /\ colorFor(meshColors, p) = lastOp.color

C1_Witness ==
    /\ mounted /\ Settled /\ lastOp.op = "setColor" /\ colorMode = "all"
    /\ lastOp.color # prev.selectedColor
    /\ DOMAIN prev.meshColors = AllParts
    /\ \A p \in AllParts : prev.meshColors[p] = prev.selectedColor

\* C2: in Single mode, a click that resolves to the registered part X sets the
\* entry of X to the pending color and leaves the entry of every other part as
\* it was (present with the same color, or absent).
C2_SinglePickFrame ==
    (mounted /\ Settled /\ lastOp.op = "click" /\ colorMode = "single"
        /\ NearestIsRegistered) =>
        LET X == lastOp.hits[1].name IN
        /\ X \in DOMAIN meshColors
        /\ meshColors[X] = selectedColor
        /\ colorFor(meshColors, X) = selectedColor
        /\ \A p \in (AllParts \cup DOMAIN meshColors \cup DOMAIN prev.meshColors) \ {X} :
              /\ (p \in DOMAIN meshColors) <=> (p \in DOMAIN prev.meshColors)
              /\ p \in DOMAIN meshColors => meshColors[p] = prev.meshColors[p]

\* two parts picked one after the other keep their two colors
C2_Witness ==
    /\ mounted /\ Settled /\ lastOp.op = "click" /\ colorMode = "single"
    /\ NearestIsRegistered
    /\ LET X == lastOp.hits[1].name IN
          /\ X \in DOMAIN prev.meshColors
          /\ prev.meshColors[X] # selectedColor
          /\ \E p \in DOMAIN meshColors \ {X} : meshColors[p] # meshColors[X]

\* C3 as stated: the assignment after a mode switch has been processed equals
\* the assignment before it, for either target mode.
C3_ModeSwitchKeepsMapping ==
    (mounted /\ Settled /\ lastOp.op = "setMode") => meshColors = prev.meshColors

\* C3 amended: a switch to Single, and a switch to the mode already set, leave
\* the assignment as it was; a switch from Single to All overwrites it with
\* {p -> pending color} over the 32 registered parts.
C3_ModeSwitch ==
    (mounted /\ Settled /\ lastOp.op = "setMode") =>
        IF lastOp.mode = "all" /\ prev.colorMode = "single"
        THEN /\ DOMAIN meshColors = AllParts
             /\ \A p \in AllParts : meshColors[p] = selectedColor
        ELSE meshColors = prev.meshColors

C3_Witness ==
    /\ mounted /\ Settled /\ lastOp.op = "setMode"
    /\ lastOp.mode = "all" /\ prev.colorMode = "single"
    /\ DOMAIN prev.meshColors = AllParts
    /\ \E p, q \in AllParts : prev.meshColors[p] # prev.meshColors[q]

\* C4: in Single mode a palette click changes the pending color only: the
\* assignment is the one before the click and no write to it is queued, until
\* the next event.
C4_SingleSelectionStages ==
    (mounted /\ lastOp.op = "setColor" /\ colorMode = "single") =>
        /\ selectedColor = lastOp.color
        /\ meshColors = prev.meshColors
        /\ updateQueue = << >>
        /\ \A i \in DOMAIN pending : pending[i] # "updateMaterials"

C4_Witness ==
    /\ mounted /\ Settled /\ lastOp.op = "setColor" /\ colorMode = "single"
    /\ lastOp.color # prev.selectedColor
    /\ \E p \in DOMAIN meshColors : meshColors[p] # selectedColor

\* C5: in All mode a click on the canvas, whatever it hits, leaves the whole
\* assignment unchanged, queues nothing and raises no error.
C5_PickNoOpInAll ==
    (mounted /\ lastOp.op = "click" /\ colorMode = "all") =>
        /\ meshColors = prev.meshColors
        /\ \A p \in AllParts : colorFor(meshColors, p) = colorFor(prev.meshColors, p)
        /\ Settled
        /\ ~threw

\* a click in All mode, handled by an installed listener, whose nearest hit
\* is a registered part and whose pending color is not the default one
C5_Witness ==
    /\ mounted /\ lastOp.op = "click" /\ colorMode = "all"
    /\ listeners # << >>
    /\ NearestIsRegistered
    /\ selectedColor # DefaultColor

\* C6: every key of the assignment, and of every queued write to it, is one
\* of the 32 identifiers of the registry.
C6_KeysInRegistry ==
    /\ Cardinality(AllParts) = 32
    /\ \A k \in DOMAIN meshColors : Includes(BRACES_MESHES, k)
    /\ \A i \in DOMAIN updateQueue :
          IF updateQueue[i].kind = "assign"
          THEN Includes(BRACES_MESHES, updateQueue[i].key)
          ELSE \A k \in DOMAIN updateQueue[i].map : Includes(BRACES_MESHES, k)

\* a Single-mode click whose nearest hit is the unregistered mesh, on an
\* assignment that holds some but not all parts
C6_Witness ==
    /\ mounted /\ Settled /\ lastOp.op = "click" /\ colorMode = "single"
    /\ lastOp.hits # << >> /\ lastOp.hits[1].name = ToothName
    /\ DOMAIN meshColors # {} /\ DOMAIN meshColors # AllParts

\* C7: the pick of a Single-mode click is the name of the nearest hit when
\* that name is registered, and nothing otherwise, whatever lies behind it.
C7_NearestHitOnly ==
    (mounted /\ lastOp.op = "click" /\ colorMode = "single") =>
        IF NearestIsRegistered
        THEN picked = {lastOp.hits[1].name}
        ELSE picked = {}

\* a registered part behind the unregistered mesh: no pick
C7_Witness ==
    /\ mounted /\ lastOp.op = "click" /\ colorMode = "single"
    /\ Len(lastOp.hits) >= 2
    /\ lastOp.hits[1].name = ToothName
    /\ lastOp.hits[2].name \in AllParts
    /\ picked = {}

\* C8: a click that hits nothing, or whose nearest hit is not registered,
\* leaves mode, pending color and assignment unchanged, queues nothing and
\* raises no error, in either mode.
C8_UnresolvedPickIgnored ==
    (mounted /\ lastOp.op = "click" /\ ~NearestIsRegistered) =>
        /\ colorMode = prev.colorMode
        /\ selectedColor = prev.selectedColor
        /\ meshColors = prev.meshColors
        /\ Settled
        /\ ~threw

C8_Witness ==
    /\ mounted /\ lastOp.op = "click" /\ colorMode = "single"
    /\ lastOp.hits = << >>
    /\ DOMAIN meshColors # {}

\* every registered mesh of the scene shows its assigned color, or #0000FF
\* when the assignment has no entry for it
DisplayAgrees ==
    \A o \in SceneMeshes :
        o.name \in AllParts =>
            material[o].color =
                IF o.name \in DOMAIN meshColors THEN meshColors[o.name] ELSE "#0000FF"

\* C9: a change of the assignment queues a renderer pass; the queued effects
\* always run to a settled state; in every settled state of the mounted model
\* the registered meshes show the assignment.
C9_RendererFollows ==
    /\ [][meshColors' # meshColors =>
            (pending' # << >> /\ Head(pending') = "updateMaterials")]_vars
    /\ [](mounted /\ Settled => DisplayAgrees)
    /\ (mounted /\ ~Settled) ~> (Settled /\ DisplayAgrees)

\* a settled state that shows one picked color, one default color
C9_Witness ==
    /\ mounted /\ Settled /\ DisplayAgrees
    /\ \E o \in SceneMeshes : o.name \in AllParts /\ o.name \notin DOMAIN meshColors
    /\ \E o \in SceneMeshes :
          /\ o.name \in DOMAIN meshColors
          /\ material[o].color = meshColors[o.name]
          /\ material[o].color # "#0000FF"

\* C10: a renderer pass that reads the assignment the pass before it read
\* leaves the material of every mesh of the scene as it was.
C10_PassIdempotent ==
    [][(RunUpdateMaterials /\ lastPass.ran /\ lastPass.colors = meshColors)
          => material' = material]_vars

\* two passes in a row have read the same assignment
C10_Witness ==
    /\ lastPass.repeated
    /\ lastPass.colors = meshColors
    /\ DOMAIN meshColors # {}

\* C11: setColorMode(m) handled right after setColorMode(m) leaves mode,
\* pending color and assignment as the first call left them, and queues no
\* write to the assignment.
C11_SetModeIdempotent ==
    trail.repeatedMode =>
        /\ colorMode = lastOp.mode
        /\ colorMode = prev.colorMode
        /\ selectedColor = prev.selectedColor
        /\ meshColors = prev.meshColors
        /\ updateQueue = << >>

\* All set twice in a row on the mounted model, with a pending color that is
\* not the initial one
C11_Witness ==
    /\ trail.repeatedMode /\ mounted /\ Settled
    /\ lastOp.mode = "all"
    /\ selectedColor # InitialSelectedColor
    /\ DOMAIN meshColors = AllParts

\* C12: at most one click listener is installed at any time; a change of mode
\* or pending color on the mounted model queues the removal before the
\* addition; the removal takes away the one listener that was added, and the
\* addition installs the new one on an element that has none.
C12_OneListener ==
    /\ [](Len(listeners) <= 1)
    /\ [][(mounted /\ (colorMode' # colorMode \/ selectedColor' # selectedColor)) =>
            \E i, j \in DOMAIN pending' :
                /\ i < j
                /\ pending'[i] = "removeListener"
                /\ pending'[j] = "addListener"]_vars
    /\ [][listeners' # listeners =>
            \/ /\ Len(listeners) = 1 /\ listeners' = << >>
               /\ listeners[1] = listenerCleanup
            \/ /\ listeners = << >> /\ Len(listeners') = 1
               /\ listeners'[1].colorMode = colorMode
               /\ listeners'[1].selectedColor = selectedColor]_vars

\* the listener of the mounted model has been replaced after a change of the
\* pending color
C12_Witness ==
    /\ mounted /\ Settled /\ lastOp.op = "setColor"
    /\ prev.selectedColor # selectedColor
    /\ Len(listeners) = 1
    /\ listeners[1].selectedColor = selectedColor

C14_PendingColorFrame ==
    /\ [][(lastOp'.op \in {"mount", "setMode", "click"} \/ ~Settled)
            => selectedColor' = selectedColor]_vars
    /\ [][selectedColor' # selectedColor =>
            /\ Settled
            /\ lastOp'.op = "setColor"
            /\ lastOp'.color = selectedColor'
            /\ prev'.selectedColor = selectedColor]_vars

\* a resolved click, rendered, on a model whose mode was switched to Single:
\* the pending color is still the one selected from the palette
C14_Witness ==
    /\ mounted /\ Settled /\ lastOp.op = "click" /\ colorMode = "single"
    /\ picked # {}
    /\ lastPass.ran /\ lastPass.colors = meshColors
    /\ selectedColor # InitialSelectedColor
    /\ selectedColor = prev.selectedColor

\* C15 as stated: before any palette selection, mode switch or click, the
\* assignment has no entries.
C15_EmptyBeforeUserActs ==
    ~trail.touched => DOMAIN meshColors = {}

\* C15 amended: the assignment is empty when BracesModel is created and until
\* the render that follows the mount effects; with the initial mode All and
\* the initial color #0000FF that render fills it, so once the mount has
\* settled and before any user event it is {p -> #0000FF} over the 32 parts.
C15_CreatedEmptyThenFilled ==
    /\ (/\ lastOp.op \in {"init", "mount"}
        /\ \/ ~mounted
           \/ updateQueue # << >>
           \/ \E i \in DOMAIN pending : pending[i] = "applyColors")
          => DOMAIN meshColors = {}
    /\ (~trail.touched /\ mounted /\ Settled) =>
          /\ DOMAIN meshColors = AllParts
          /\ Cardinality(DOMAIN meshColors) = 32
          /\ \A p \in AllParts : meshColors[p] = "#0000FF"

\* the mount has settled and the user has not acted
C15_Witness ==
    /\ ~trail.touched /\ mounted /\ Settled
    /\ lastOp.op = "mount"
    /\ lastPass.ran
    /\ DOMAIN meshColors # {}

\* C16: in every settled state of the mounted model whose mode is All, the
\* assignment is {p -> pending color} over the 32 registered parts, whatever
\* selections, mode switches and picks came before.
C16_AllModeUniform ==
    (mounted /\ Settled /\ colorMode = "all") =>
        /\ DOMAIN meshColors = AllParts
        /\ Cardinality(AllParts) = 32
        /\ \A p \in AllParts : meshColors[p] = selectedColor
        /\ \A o \in SceneMeshes : o.name \in AllParts => material[o].color = selectedColor

\* back in All mode after picks in Single mode had made the assignment
\* non-uniform
C16_Witness ==
    /\ mounted /\ Settled /\ colorMode = "all"
    /\ lastOp.op = "setMode" /\ prev.colorMode = "single"
    /\ \E p \in DOMAIN prev.meshColors : prev.meshColors[p] # selectedColor
    /\ \E p \in DOMAIN prev.meshColors : prev.meshColors[p] = selectedColor
    /\ meshColors # prev.meshColors

====
